---- MODULE Spec2Model ----
(***************************************************************************)
(* stream-tools: the OAuth credential manager (stream_tools/auth/oauth.py) *)
(* and the `yt auth` commands (stream_tools_cli/commands/auth.py).         *)
(*                                                                         *)
(* One OAuthManager instance lives in a host process (credentials is its   *)
(* _credentials field).  The token file, the client-secret file and the    *)
(* process environment are shared with the `yt auth` commands, each of     *)
(* which runs in a process of its own and builds a fresh OAuthManager.     *)
(*                                                                         *)
(* google-auth is an external library.  The three facts of it the code     *)
(* depends on are modelled as the library implements them:                 *)
(*   Credentials.expired   False when the credential has no expiry         *)
(*   Credentials.valid     token is not None and not expired               *)
(*   from_authorized_user_file  requires the keys refresh_token, client_id *)
(*       and client_secret (ValueError otherwise), takes the scopes passed *)
(*       in, always uses Google's token endpoint, and - as the file the    *)
(*       manager writes holds no "expiry" key - marks the credential as    *)
(*       already expired.                                                  *)
(***************************************************************************)
EXTENDS Integers, Sequences, FiniteSets, TLC

VARIABLES
    credentials,         \* OAuthManager._credentials of the host process
    token_path,          \* content of config.token_path on disk
    client_secret_path,  \* content of config.client_secret_path on disk
    environ,             \* os.environ, the three configured names
    last,                \* the last manager call: what it was, how it ended
    cli,                 \* the last `yt auth` command and the one before it
    watch,               \* the locals of one run of `yt streams watch`
    twin,                \* a second run of watch, fed the same samples
    api,                 \* the YouTube resources and the last service call
    race                 \* two more processes at work on the token file

vars == <<credentials, token_path, client_secret_path, environ, last, cli,
          watch, twin, api, race>>

\* The variables of the authentication part, of the watch loop and of the
\* resource services: each part leaves the others' variables alone.
authVars == <<credentials, token_path, client_secret_path, environ, last, cli>>
watchVars == <<watch, twin>>

-----------------------------------------------------------------------------
(* Values *)

None == "None"
NoCreds == [kind |-> "None"]
NoFile == [kind |-> "absent"]
\* a token file that is not the JSON object the manager writes (empty,
\* truncated, or missing one of the keys the library requires)
BadFile == [kind |-> "unusable"]

ENVIRONMENT == "environment"
TOKEN_FILE == "token_file"
INTERACTIVE == "interactive"
AuthMethod == {ENVIRONMENT, TOKEN_FILE, INTERACTIVE}

YOUTUBE_SCOPES == "youtube youtube.force-ssl"
GoogleTokenUri == "https://oauth2.googleapis.com/token"

\* the number of distinct access tokens the provider hands out
NumAccessTokens == 2
TokenNames == <<"at1", "at2", "at3", "at4">>
AccessTokens == {TokenNames[i] : i \in 1..NumAccessTokens}
\* os.environ.get gives None for an unset name and "" for an empty one
EnvValues ==
    {[client_id |-> "cidE", client_secret |-> "secE", refresh_token |-> "rtE"],
     [client_id |-> None, client_secret |-> None, refresh_token |-> None],
     [client_id |-> "cidE", client_secret |-> "secE", refresh_token |-> None],
     [client_id |-> "cidE", client_secret |-> "", refresh_token |-> "rtE"]}
ClientSecretFiles ==
    {NoFile,
     [kind |-> "json", section |-> "installed", client_id |-> "cidF", client_secret |-> "secF"],
     [kind |-> "json", section |-> "web", client_id |-> "cidF", client_secret |-> "secF"],
     [kind |-> "json", section |-> "installed", client_id |-> "cidF", client_secret |-> None],
     [kind |-> "json", section |-> "other", client_id |-> None, client_secret |-> None]}

\* what the collaborators do during one call: whether each refresh exchange
\* succeeds, the access token handed out, how the consent flow ends
Choices == [envOk : BOOLEAN, fileOk : BOOLEAN,
            newToken : AccessTokens, flow : {"ok", "ok_no_rt", "error"}]

\* the choices a call that runs no consent flow / at most one refresh reads
NoFlow == {ch \in Choices : ch.flow = "ok"}
FlowOnly == {ch \in Choices : ch.envOk /\ ch.fileOk}
OneRefresh == {ch \in NoFlow : ch.envOk = ch.fileOk}

\* Python truthiness of an optional string
Truthy(x) == x # None /\ x # ""

-----------------------------------------------------------------------------
(* google.oauth2.credentials.Credentials *)

Credentials(token, refresh_token, client_id, client_secret, scopes, expiry) ==
    [kind |-> "cred", token |-> token, refresh_token |-> refresh_token,
     token_uri |-> GoogleTokenUri, client_id |-> client_id,
     client_secret |-> client_secret, scopes |-> scopes, expiry |-> expiry]

expired(c) == c.expiry = "past"

valid(c) == c.token # None /\ ~expired(c)

is_authenticated(creds) == creds # NoCreds /\ valid(creds)

\* variant: the refresh token is left out of the file
token_data_no_refresh(c) ==
    [kind |-> "json", token |-> c.token, refresh_token |-> None,
     token_uri |-> c.token_uri, client_id |-> c.client_id,
     client_secret |-> c.client_secret, scopes |-> c.scopes]

\* json.dumps(token_data): the six keys, no expiry
token_data(c) ==
    [kind |-> "json", token |-> c.token, refresh_token |-> c.refresh_token,
     token_uri |-> c.token_uri, client_id |-> c.client_id,
     client_secret |-> c.client_secret, scopes |-> c.scopes]

from_authorized_user_file(f, scopes) ==
    Credentials(f.token, f.refresh_token, f.client_id, f.client_secret, scopes, "past")

-----------------------------------------------------------------------------
(* The manager's methods, as functions of the running call                 *)
(*   m = [creds, file, exc, ret, log]                                      *)
(* creds: _credentials, file: the token file, exc: the exception raised    *)
(* ("none" while running normally), ret: the value returned, log: the      *)
(* strategies entered and the I/O performed, in order.                     *)

Call(creds, file) ==
    [creds |-> creds, file |-> file, exc |-> "none", ret |-> None, log |-> <<>>]

Note(m, ev) == [m EXCEPT !.log = Append(@, ev)]
Raise(m, e) == [m EXCEPT !.exc = e]
Caught(m) == [m EXCEPT !.exc = "none"]
Return(m, v) == [m EXCEPT !.ret = v]

\* variant: a failed exchange raises but leaves the credential in place
_refresh_if_needed_keep(m, ok, tok) ==
    IF m.creds # NoCreds /\ expired(m.creds) /\ Truthy(m.creds.refresh_token)
    THEN IF ok
         THEN [Note(m, "refresh") EXCEPT
                  !.creds = [m.creds EXCEPT !.token = tok, !.expiry = "future"]]
         ELSE Raise(Note(Note(m, "refresh"), "refresh_failed"), "AuthenticationError")
    ELSE m

\* variant: refreshes whenever a refresh token is held, expired or not
_refresh_if_needed_always(m, ok, tok) ==
    IF m.creds # NoCreds /\ Truthy(m.creds.refresh_token)
    THEN IF ok
         THEN [Note(m, "refresh") EXCEPT
                  !.creds = [m.creds EXCEPT !.token = tok, !.expiry = "future"]]
         ELSE Raise([Note(Note(m, "refresh"), "refresh_failed") EXCEPT !.creds = NoCreds],
                    "AuthenticationError")
    ELSE m

_refresh_if_needed(m, ok, tok) ==
    IF m.creds # NoCreds /\ expired(m.creds) /\ Truthy(m.creds.refresh_token)
    THEN IF ok
         THEN [Note(m, "refresh") EXCEPT
                  !.creds = [m.creds EXCEPT !.token = tok, !.expiry = "future"]]
         ELSE Raise([Note(Note(m, "refresh"), "refresh_failed") EXCEPT !.creds = NoCreds],
                    "AuthenticationError")
    ELSE m

\* variant: writes the token file only when there is none yet
_save_credentials_once(m) ==
    IF m.creds = NoCreds \/ m.file # NoFile
    THEN m
    ELSE [Note(m, "file_write") EXCEPT !.file = token_data(m.creds)]

_save_credentials(m) ==
    IF m.creds = NoCreds
    THEN m
    ELSE [Note(m, "file_write") EXCEPT !.file = token_data(m.creds)]

\* variant: the credential is dropped before the variables are looked at
_authenticate_from_env_clearing(m0, ch) ==
    LET m == [Note(m0, ENVIRONMENT) EXCEPT !.creds = NoCreds]
    IN  IF ~(Truthy(environ.client_id) /\ Truthy(environ.client_secret)
               /\ Truthy(environ.refresh_token))
        THEN Raise(m, "AuthenticationError")
        ELSE _refresh_if_needed(
                 [m EXCEPT !.creds = Credentials(None, environ.refresh_token,
                                                 environ.client_id, environ.client_secret,
                                                 YOUTUBE_SCOPES, None)],
                 ch.envOk, ch.newToken)

_authenticate_from_env(m0, ch) ==
    LET m == Note(m0, ENVIRONMENT)
    IN  IF ~(Truthy(environ.client_id) /\ Truthy(environ.client_secret)
               /\ Truthy(environ.refresh_token))
        THEN Raise(m, "AuthenticationError")
        ELSE _refresh_if_needed(
                 [m EXCEPT !.creds = Credentials(None, environ.refresh_token,
                                                 environ.client_id, environ.client_secret,
                                                 YOUTUBE_SCOPES, None)],
                 ch.envOk, ch.newToken)

_authenticate_from_token_file(m0, ch) ==
    LET m == Note(m0, TOKEN_FILE)
    IN  IF m.file = NoFile
        THEN Raise(m, "AuthenticationError")
        ELSE IF m.file = BadFile
        THEN Raise(Note(m, "file_read"), "OtherError")
        ELSE LET loaded == [Note(m, "file_read") EXCEPT
                               !.creds = from_authorized_user_file(m.file, YOUTUBE_SCOPES)]
                 fresh == _refresh_if_needed(loaded, ch.fileOk, ch.newToken)
             IN  IF fresh.exc # "none" THEN fresh ELSE _save_credentials(fresh)

\* InstalledAppFlow.from_client_secrets_file accepts an "installed" or "web"
\* section that names a client_id
FlowConfigOk(f) == f.section \in {"installed", "web"} /\ Truthy(f.client_id)

_authenticate_interactive(m0, force_prompt, ch) ==
    LET m == Note(m0, INTERACTIVE)
    IN  IF client_secret_path = NoFile
        THEN Raise(m, "AuthenticationError")
        ELSE IF ~FlowConfigOk(client_secret_path)
        THEN Raise(m, "OtherError")
        ELSE IF ch.flow = "error"
        THEN Raise(Note(m, "flow"), "OtherError")
        ELSE _save_credentials(
                 [Note(m, "flow") EXCEPT
                     !.creds = Credentials(
                         ch.newToken,
                         IF force_prompt \/ ch.flow = "ok" THEN "rtI" ELSE None,
                         client_secret_path.client_id,
                         client_secret_path.client_secret,
                         YOUTUBE_SCOPES, "future")])

\* variant: the cached token file is tried before the environment
auto_authenticate_file_first(m, ch) ==
    LET t == _authenticate_from_token_file(m, ch)
    IN  IF t.exc = "none" THEN Return(t, TOKEN_FILE)
        ELSE IF t.exc # "AuthenticationError" THEN t
        ELSE LET e == _authenticate_from_env(Caught(t), ch)
             IN  IF e.exc = "none" THEN Return(e, ENVIRONMENT)
                 ELSE IF e.exc # "AuthenticationError" THEN e
                 ELSE LET i == _authenticate_interactive(Caught(e), FALSE, ch)
                      IN  IF i.exc = "none" THEN Return(i, INTERACTIVE) ELSE i

auto_authenticate(m, ch) ==
    LET e == _authenticate_from_env(m, ch)
    IN  IF e.exc = "none" THEN Return(e, ENVIRONMENT)
        ELSE IF e.exc # "AuthenticationError" THEN e
        ELSE LET t == _authenticate_from_token_file(Caught(e), ch)
             IN  IF t.exc = "none" THEN Return(t, TOKEN_FILE)
                 ELSE IF t.exc # "AuthenticationError" THEN t
                 ELSE LET i == _authenticate_interactive(Caught(t), FALSE, ch)
                      IN  IF i.exc = "none" THEN Return(i, INTERACTIVE) ELSE i

authenticate(m, method, ch) ==
    IF method = None
    THEN auto_authenticate(m, ch)
    ELSE LET r == CASE method = ENVIRONMENT -> _authenticate_from_env(m, ch)
                    [] method = TOKEN_FILE -> _authenticate_from_token_file(m, ch)
                    [] method = INTERACTIVE -> _authenticate_interactive(m, FALSE, ch)
         IN  IF r.exc = "none" THEN Return(r, method) ELSE r

_read_client_secret_file ==
    LET f == client_secret_path
        hasSection == f # NoFile /\ f.section \in {"installed", "web"}
        client_id == IF hasSection THEN f.client_id ELSE None
        client_secret == IF hasSection THEN f.client_secret ELSE None
    IN  IF f = NoFile \/ ~Truthy(client_id) \/ ~Truthy(client_secret)
        THEN [exc |-> "AuthenticationError", client_id |-> None, client_secret |-> None]
        ELSE [exc |-> "none", client_id |-> client_id, client_secret |-> client_secret]

authenticate_with_token(m0, refresh_token, client_id, client_secret, ch) ==
    LET m == Note(m0, "with_token")
        ids == IF ~Truthy(client_id) \/ ~Truthy(client_secret)
               THEN _read_client_secret_file
               ELSE [exc |-> "none", client_id |-> client_id,
                     client_secret |-> client_secret]
    IN  IF ids.exc # "none"
        THEN Raise(m, ids.exc)
        ELSE LET fresh == _refresh_if_needed(
                              [m EXCEPT !.creds = Credentials(None, refresh_token,
                                                              ids.client_id, ids.client_secret,
                                                              YOUTUBE_SCOPES, None)],
                              ch.envOk, ch.newToken)
             IN  IF fresh.exc # "none" THEN fresh ELSE _save_credentials(fresh)

reauth(m, ch) == _authenticate_interactive(m, TRUE, ch)

\* variant: unlink without the exists() test
logout_unlink_always(m) ==
    IF m.file # NoFile
    THEN [Note(m, "file_unlink") EXCEPT !.creds = NoCreds, !.file = NoFile]
    ELSE Raise([Note(m, "file_unlink") EXCEPT !.creds = NoCreds], "OtherError")

logout(m) ==
    IF m.file # NoFile
    THEN [Note(m, "file_unlink") EXCEPT !.creds = NoCreds, !.file = NoFile]
    ELSE [m EXCEPT !.creds = NoCreds]

get_status(m) ==
    [authenticated |-> is_authenticated(m.creds),
     token_file_exists |-> m.file # NoFile,
     env_configured |-> Truthy(environ.client_id) /\ Truthy(environ.client_secret)
                           /\ Truthy(environ.refresh_token),
     client_secret_exists |-> client_secret_path # NoFile]

NoStatus ==
    [authenticated |-> FALSE, token_file_exists |-> FALSE,
     env_configured |-> FALSE, client_secret_exists |-> FALSE]

-----------------------------------------------------------------------------
(* The host process calling its manager *)

\* the record kept of a finished call; again: the call before was the same one
Done(op, arg, m) ==
    [op |-> op, arg |-> arg, exc |-> m.exc, ret |-> m.ret, log |-> m.log,
     again |-> (last.op = op), pre_creds |-> credentials, pre_file |-> token_path,
     status |-> IF op = "get_status" THEN get_status(m) ELSE NoStatus]

Finish(op, arg, m) ==
    /\ credentials' = m.creds
    /\ token_path' = m.file
    /\ last' = Done(op, arg, m)
    /\ UNCHANGED <<client_secret_path, environ, cli, watchVars, api, race>>

Start == Call(credentials, token_path)

AutoAuthenticate ==
    \E ch \in Choices : Finish("auto_authenticate", None, auto_authenticate(Start, ch))

Authenticate ==
    \E method \in AuthMethod :
      \E ch \in (IF method = INTERACTIVE THEN FlowOnly ELSE OneRefresh) :
        Finish("authenticate", method, authenticate(Start, method, ch))

\* the (client_id, client_secret) pairs a caller passes
ClientArgs == {<<None, None>>, <<"cidA", "secA">>, <<"cidA", None>>}

AuthenticateWithToken ==
    \E ids \in ClientArgs, ch \in OneRefresh :
        Finish("authenticate_with_token", None,
               authenticate_with_token(Start, "rtA", ids[1], ids[2], ch))

Reauth ==
    \E ch \in FlowOnly : Finish("reauth", None, reauth(Start, ch))

Logout == Finish("logout", None, logout(Start))

RefreshIfNeeded ==
    \E ch \in OneRefresh :
        Finish("_refresh_if_needed", None, _refresh_if_needed(Start, ch.fileOk, ch.newToken))

GetStatus == Finish("get_status", None, Start)

\* the clock passes the expiry of the access token held in memory
Tick ==
    /\ credentials # NoCreds
    /\ credentials.expiry = "future"
    /\ credentials' = [credentials EXCEPT !.expiry = "past"]
    /\ last' = Done("tick", None, Start)
    /\ UNCHANGED <<token_path, client_secret_path, environ, cli, watchVars, api, race>>

-----------------------------------------------------------------------------
(* The `yt auth` commands: each runs in its own process on a new manager *)

NoOpts == [force |-> FALSE, token |-> None, client_id |-> None,
           client_secret |-> None, method |-> None]

\* the option combinations of `yt auth login`
LoginOpts ==
    {NoOpts,
     [NoOpts EXCEPT !.force = TRUE],
     [NoOpts EXCEPT !.force = TRUE, !.token = "rtA"],
     [NoOpts EXCEPT !.token = "rtA"],
     [NoOpts EXCEPT !.token = "rtA", !.client_id = "cidA", !.client_secret = "secA"],
     [NoOpts EXCEPT !.method = ENVIRONMENT],
     [NoOpts EXCEPT !.method = TOKEN_FILE],
     [NoOpts EXCEPT !.method = INTERACTIVE],
     [NoOpts EXCEPT !.method = "browser"]}

\* exc "Exit" is typer.Exit(1) raised for an invalid --method
login(file, o, ch) ==
    LET auth == Call(NoCreds, file)
    IN  IF o.force THEN reauth(auth, ch)
        ELSE IF Truthy(o.token)
        THEN authenticate_with_token(auth, o.token, o.client_id, o.client_secret, ch)
        ELSE IF Truthy(o.method) /\ o.method \notin AuthMethod
        THEN Raise(auth, "Exit")
        ELSE authenticate(auth, IF Truthy(o.method) THEN o.method ELSE None, ch)

status(file) == get_status(Call(NoCreds, file))

\* what is remembered of the command before the last one
Brief(c) == [cmd |-> c.cmd, force |-> c.opts.force, exit |-> c.exit, bare |-> c.bare]

\* the configuration of a first login: no environment variable set, no token
\* file, a client-secret file in place
Bare ==
    /\ environ.client_id = None /\ environ.client_secret = None
    /\ environ.refresh_token = None
    /\ token_path = NoFile
    /\ client_secret_path # NoFile

\* exit code 1 for AuthenticationError and typer.Exit(1); an exception the
\* command does not catch ends the process with a traceback and code 1 too
Command(cmd, opts, m, report) ==
    /\ token_path' = m.file
    /\ cli' = [cmd |-> cmd, opts |-> opts, exit |-> IF m.exc = "none" THEN 0 ELSE 1,
               exc |-> m.exc, log |-> m.log, status |-> report,
               bare |-> Bare, prev |-> Brief(cli)]
    /\ UNCHANGED <<credentials, client_secret_path, environ, last, watchVars, api, race>>

CliLogin ==
    \E o \in LoginOpts :
      \E ch \in (IF o.force \/ o.method = INTERACTIVE THEN FlowOnly
                 ELSE IF Truthy(o.token) \/ Truthy(o.method) THEN OneRefresh
                 ELSE Choices) :
        Command("login", o, login(token_path, o, ch), NoStatus)

CliStatus ==
    Command("status", NoOpts, Call(NoCreds, token_path), status(token_path))

CliLogout ==
    Command("logout", NoOpts, logout(Call(NoCreds, token_path)), NoStatus)

-----------------------------------------------------------------------------

NoCall ==
    [op |-> "none", arg |-> None, exc |-> "none", ret |-> None, log |-> <<>>,
     again |-> FALSE, pre_creds |-> NoCreds, pre_file |-> NoFile, status |-> NoStatus]

NoCommand ==
    [cmd |-> "none", opts |-> NoOpts, exit |-> 0, exc |-> "none", log |-> <<>>,
     status |-> NoStatus, bare |-> FALSE,
     prev |-> [cmd |-> "none", force |-> FALSE, exit |-> 0, bare |-> FALSE]]

\* No `yt streams watch` is running, and no resource call was made.
NotWatching == [pc |-> "none"]
NoResources == [pc |-> "none"]
NoRace == [pc |-> "none"]

Init ==
    /\ watch = NotWatching
    /\ twin = NotWatching
    /\ api = NoResources
    /\ race = NoRace
    /\ credentials = NoCreds
    /\ token_path \in {NoFile, BadFile}
    /\ client_secret_path \in ClientSecretFiles
    /\ environ \in EnvValues
    /\ last = NoCall
    /\ cli = NoCommand

Next ==
    \/ AutoAuthenticate
    \/ Authenticate
    \/ AuthenticateWithToken
    \/ Reauth
    \/ Logout
    \/ RefreshIfNeeded
    \/ GetStatus
    \/ Tick

Spec == Init /\ [][Next]_vars

CliNext ==
    \/ CliLogin
    \/ CliStatus
    \/ CliLogout

CliSpec == Init /\ [][CliNext]_vars

-----------------------------------------------------------------------------
(* Properties *)

Has(log, ev) == \E i \in 1..Len(log) : log[i] = ev
IsStrategy(ev) == ev \in AuthMethod
Tried(log) == SelectSeq(log, IsStrategy)
IsPrefix(s, t) == Len(s) <= Len(t) /\ \A i \in 1..Len(s) : s[i] = t[i]
EnvConfigured ==
    Truthy(environ.client_id) /\ Truthy(environ.client_secret)
        /\ Truthy(environ.refresh_token)
Strategic == {"auto_authenticate", "authenticate"}
Succeeded == last.exc = "none"

\* C1: auto_authenticate enters the strategies in the order ENVIRONMENT,
\* TOKEN_FILE, INTERACTIVE and returns the one it entered last, the first
\* that succeeded; with the three environment variables set it returns
\* ENVIRONMENT having entered no other strategy, read or written no token
\* file and launched no consent flow.
C1_StrategyOrder ==
    last.op = "auto_authenticate" =>
        /\ Tried(last.log) # <<>>
        /\ IsPrefix(Tried(last.log), <<ENVIRONMENT, TOKEN_FILE, INTERACTIVE>>)
        /\ Succeeded => last.ret = Tried(last.log)[Len(Tried(last.log))]
        /\ EnvConfigured =>
              /\ Succeeded
              /\ last.ret = ENVIRONMENT
              /\ Tried(last.log) = <<ENVIRONMENT>>
              /\ ~Has(last.log, "file_read")
              /\ ~Has(last.log, "file_write")
              /\ ~Has(last.log, "flow")
              /\ token_path = last.pre_file

\* auto_authenticate returned ENVIRONMENT although a token file and a
\* client-secret file were there to use
C1_Witness ==
    /\ last.op = "auto_authenticate"
    /\ EnvConfigured
    /\ last.ret = ENVIRONMENT
    /\ last.pre_file # NoFile
    /\ client_secret_path # NoFile

\* C2: auto_authenticate raises only when INTERACTIVE was entered and failed,
\* every failure of ENVIRONMENT and of TOKEN_FILE (an unusable token file
\* included) being swallowed; and with the environment incomplete and a
\* usable token file whose refresh does not fail it returns TOKEN_FILE with
\* the file's refresh token.
C2_OnlyInteractiveRaises ==
    last.op = "auto_authenticate" =>
        /\ ~Succeeded => Has(last.log, INTERACTIVE)
        /\ (~EnvConfigured /\ last.pre_file.kind = "json"
               /\ ~Has(last.log, "refresh_failed")) =>
              /\ Succeeded
              /\ last.ret = TOKEN_FILE
              /\ credentials.refresh_token = last.pre_file.refresh_token

\* C3: when auto_authenticate or authenticate returns normally the manager
\* holds a credential whose access token is present and not expired.
C3_ReturnsUsable ==
    (last.op \in Strategic /\ Succeeded) => is_authenticated(credentials)

\* C4: a call in which a refresh exchange failed and that ended with an
\* exception leaves no credential installed, and outside auto_authenticate
\* (which swallows it) the exception is AuthenticationError.
C4_RefreshFailureClears ==
    Has(last.log, "refresh_failed") =>
        /\ ~Succeeded => credentials = NoCreds
        /\ last.op # "auto_authenticate" =>
              (last.exc = "AuthenticationError" /\ credentials = NoCreds)

\* a credential was installed, the refresh of the loaded token file failed,
\* and the manager is left with none
C4_Witness ==
    /\ last.op = "authenticate"
    /\ last.arg = TOKEN_FILE
    /\ Has(last.log, "refresh_failed")
    /\ last.pre_creds # NoCreds
    /\ credentials = NoCreds

\* C5: _refresh_if_needed called on an expired credential without a refresh
\* token raises AuthenticationError, and no strategy returns normally with
\* such a credential installed.
C5_ExpiredWithoutRefreshTokenRaises ==
    /\ (/\ last.op = "_refresh_if_needed"
        /\ last.pre_creds # NoCreds
        /\ expired(last.pre_creds)
        /\ ~Truthy(last.pre_creds.refresh_token)) => last.exc = "AuthenticationError"
    /\ (last.op \in Strategic /\ Succeeded) =>
          ~(expired(credentials) /\ ~Truthy(credentials.refresh_token))

\* C6: after a successful TOKEN_FILE, INTERACTIVE, reauth or
\* authenticate_with_token authentication the token file is the
\* serialization of the current credential; a successful ENVIRONMENT
\* authentication leaves the token file as it was.
C6_TokenFileWritten ==
    Succeeded =>
        /\ (\/ last.op \in {"reauth", "authenticate_with_token"}
            \/ last.op \in Strategic /\ last.ret \in {TOKEN_FILE, INTERACTIVE}) =>
              (credentials # NoCreds /\ token_path = token_data(credentials))
        /\ (last.op \in Strategic /\ last.ret = ENVIRONMENT) =>
              token_path = last.pre_file

\* TOKEN_FILE succeeded with a refresh and the file now differs from before
C6_Witness ==
    /\ last.op \in Strategic
    /\ Succeeded
    /\ last.ret = TOKEN_FILE
    /\ Has(last.log, "refresh")
    /\ token_path # last.pre_file

\* C7: when the token file is the serialization of the current credential,
\* loading it through the TOKEN_FILE strategy yields a credential with the
\* same refresh token, client id and scopes.
C7_RoundTrip ==
    (/\ last.op = "authenticate"
     /\ last.arg = TOKEN_FILE
     /\ Succeeded
     /\ last.pre_creds # NoCreds
     /\ last.pre_file = token_data(last.pre_creds)) =>
        /\ credentials.refresh_token = last.pre_creds.refresh_token
        /\ credentials.client_id = last.pre_creds.client_id
        /\ credentials.scopes = last.pre_creds.scopes

\* a credential holding a refresh token was written, loaded back and
\* refreshed on the way
C7_Witness ==
    /\ last.op = "authenticate"
    /\ last.arg = TOKEN_FILE
    /\ Succeeded
    /\ last.pre_creds # NoCreds
    /\ last.pre_file = token_data(last.pre_creds)
    /\ Truthy(last.pre_creds.refresh_token)
    /\ Has(last.log, "refresh")

\* C8: _refresh_if_needed with no credential set, or with an access token
\* present and not expired, calls the token endpoint zero times, raises
\* nothing and leaves the credential and the token file as they were.
C8_RefreshNoOp ==
    (/\ last.op = "_refresh_if_needed"
     /\ (last.pre_creds = NoCreds \/ valid(last.pre_creds))) =>
        /\ Succeeded
        /\ ~Has(last.log, "refresh")
        /\ credentials = last.pre_creds
        /\ token_path = last.pre_file

\* the second of two calls in a row on a fresh credential that holds a
\* refresh token
C8_Witness ==
    /\ last.op = "_refresh_if_needed"
    /\ last.again
    /\ last.pre_creds # NoCreds
    /\ valid(last.pre_creds)
    /\ Truthy(last.pre_creds.refresh_token)

\* C9: logout raises nothing from any state, leaves no credential in memory
\* and no token file; a logout right after a logout changes nothing.
C9_LogoutIdempotent ==
    last.op = "logout" =>
        /\ Succeeded
        /\ credentials = NoCreds
        /\ token_path = NoFile
        /\ last.again =>
              (credentials = last.pre_creds /\ token_path = last.pre_file)

\* the second of two logouts in a row
C9_Witness == last.op = "logout" /\ last.again

\* C10: from the configuration of a first login, `login --force` succeeds
\* through the interactive strategy alone and writes the token file, and the
\* `status` command run next reports authenticated and token_file_exists
\* both true.
C10_ForceLoginThenStatus ==
    /\ (cli.cmd = "login" /\ cli.opts.force /\ cli.bare /\ cli.exit = 0) =>
          (Tried(cli.log) = <<INTERACTIVE>> /\ token_path # NoFile)
    /\ (/\ cli.cmd = "status"
        /\ cli.prev.cmd = "login"
        /\ cli.prev.force
        /\ cli.prev.bare
        /\ cli.prev.exit = 0) =>
          (cli.status.authenticated /\ cli.status.token_file_exists)

\* C11: authenticate_with_token writes the token file only in a call whose
\* refresh exchange was made and succeeded; when the client id or secret is
\* neither passed nor found in the client-secret file it raises
\* AuthenticationError and leaves the credential and the token file as they
\* were.
C11_TokenWriteNeedsRefresh ==
    last.op = "authenticate_with_token" =>
        /\ Has(last.log, "file_write") =>
              (Has(last.log, "refresh") /\ ~Has(last.log, "refresh_failed"))
        /\ (~Succeeded /\ ~Has(last.log, "refresh")) =>
              /\ last.exc = "AuthenticationError"
              /\ credentials = last.pre_creds
              /\ token_path = last.pre_file

-----------------------------------------------------------------------------
(***************************************************************************)
(* `yt streams watch` (stream_tools_cli/commands/streams.py).  The record  *)
(* `watch` holds the locals of one run.  The run is cut at its blocking    *)
(* sleeps: one action runs from the health fetch up to the next sleep, the *)
(* exit or the uncaught exception.  A notification is counted where the    *)
(* loop calls send_notification; the webhook post behind it is made only   *)
(* when a webhook is configured, and its outcome is an input.              *)
(*                                                                         *)
(* client.streams.get wraps googleapiclient's HttpError only, so a fetch   *)
(* ends with a health value, with a StreamToolsError (HTTP error, no such  *)
(* stream) or with any other exception (transport failure, a value the     *)
(* model classes reject): "OtherError".                                    *)
(***************************************************************************)
MaxFailCount == 3      \* --fail-count ranges over 1..MaxFailCount
MaxRestarts == 2       \* --max-restarts ranges over 0..MaxRestarts
MaxFailures == 4       \* no unhealthy sample is drawn once the count is here

StreamHealthStatus == {"good", "ok", "bad", "noData"}
FetchErrors == {"StreamToolsError", "OtherError"}
FetchOutcomes == StreamHealthStatus \cup FetchErrors
ActuatorOutcomes == {"ok", "error"}
Deliveries == [1..2 -> BOOLEAN]

WatchOptions ==
    [fail_count : 1..MaxFailCount, max_restarts : 0..MaxRestarts,
     restart_on_fail : BOOLEAN, azura : BOOLEAN, webhook_url : {None, "url"}]

Counters(s) ==
    [consecutive_failures |-> s.consecutive_failures,
     total_restarts |-> s.total_restarts,
     notified_failure |-> s.notified_failure]

\* variant: restarts stay enabled without an AzuraCast client
WatchBegin_unguarded(o) ==
    [pc |-> "start", cfg |-> o,
     restart_on_fail |-> o.restart_on_fail,
     notify |-> (o.webhook_url # None),
     consecutive_failures |-> 0, total_restarts |-> 0,
     notified_failure |-> FALSE,
     step |-> "none", slept |-> "none", sample |-> "none", log |-> <<>>,
     failed |-> 0,
     pre |-> [consecutive_failures |-> 0, total_restarts |-> 0,
              notified_failure |-> FALSE],
     streak |-> 0, calls |-> 0, issues |-> 0,
     all_healthy |-> TRUE, quiet |-> TRUE, announced |-> FALSE,
     episode |-> FALSE, noted |-> 0, closed |-> FALSE, in_call |-> FALSE,
     reported |-> -1]

\* The locals after line 371: restart_on_fail is switched off when AzuraCast
\* is not configured, notify tells whether a webhook is there.
WatchBegin(o) ==
    [pc |-> "start", cfg |-> o,
     restart_on_fail |-> (o.restart_on_fail /\ o.azura),
     notify |-> (o.webhook_url # None),
     consecutive_failures |-> 0, total_restarts |-> 0,
     notified_failure |-> FALSE,
     step |-> "none", slept |-> "none", sample |-> "none", log |-> <<>>,
     failed |-> 0,
     pre |-> [consecutive_failures |-> 0, total_restarts |-> 0,
              notified_failure |-> FALSE],
     streak |-> 0, calls |-> 0, issues |-> 0,
     all_healthy |-> TRUE, quiet |-> TRUE, announced |-> FALSE,
     episode |-> FALSE, noted |-> 0, closed |-> FALSE, in_call |-> FALSE,
     reported |-> -1]

\* A step begins: the events and the counters before it are recorded afresh.
Begin(s, step, h) ==
    [s EXCEPT !.step = step, !.log = <<"get">>, !.failed = 0, !.sample = h,
              !.pre = Counters(s)]

send_notification_fatal(s, title, delivered) ==
    IF s.notify /\ ~delivered
    THEN [s EXCEPT !.log = Append(@, title), !.consecutive_failures = 0]
    ELSE [s EXCEPT !.log = Append(@, title)]

\* failed counts the "Discord notification failed" lines of the step.
send_notification(s, title, delivered) ==
    LET t == [s EXCEPT !.log = Append(@, title)]
    IN  IF s.notify /\ ~delivered THEN [t EXCEPT !.failed = @ + 1] ELSE t

sleep(s, seconds) ==
    [s EXCEPT !.pc = "sleep", !.slept = seconds, !.log = Append(@, "sleep")]

is_healthy_good_only(health) == health = "good"

is_healthy(health) == health \in {"good", "ok"}

healthy_sample_keeps_flag(s) ==
    sleep([s EXCEPT !.consecutive_failures = 0], "interval")

healthy_sample(s) ==
    sleep([s EXCEPT !.consecutive_failures = 0, !.notified_failure = FALSE],
          "interval")

first_failure_every_time(s) == TRUE

first_failure(s) == s.consecutive_failures = 1 /\ ~s.notified_failure

threshold_reached(s) ==
    s.restart_on_fail /\ s.consecutive_failures >= s.cfg.fail_count

budget_exhausted_late(s) == s.total_restarts > s.cfg.max_restarts

budget_exhausted(s) == s.total_restarts >= s.cfg.max_restarts

give_up(s, delivered) ==
    LET t == send_notification(s, "Stream Monitor Stopped", delivered)
    IN  [t EXCEPT !.pc = "exit", !.log = Append(@, "Exit(1)")]

\* variant: the restart is not counted
restart_succeeded_uncounted(s, delivered) ==
    LET t == [s EXCEPT !.consecutive_failures = 0, !.notified_failure = FALSE]
    IN  sleep(send_notification(t, "AzuraCast Restarted", delivered),
              "restart_wait")

restart_succeeded(s, delivered) ==
    LET t == [s EXCEPT !.total_restarts = @ + 1, !.consecutive_failures = 0,
                       !.notified_failure = FALSE]
    IN  sleep(send_notification(t, "AzuraCast Restarted", delivered),
              "restart_wait")

restart_failed_resets(s, delivered) ==
    sleep(send_notification([s EXCEPT !.consecutive_failures = 0],
                            "Restart Failed", delivered), "fail_interval")

\* variant: a failed attempt uses up the budget too
restart_failed_counts(s, delivered) ==
    sleep(send_notification([s EXCEPT !.total_restarts = @ + 1],
                            "Restart Failed", delivered), "fail_interval")

restart_failed(s, delivered) ==
    sleep(send_notification(s, "Restart Failed", delivered), "fail_interval")

restart(s, actuator, delivered) ==
    LET t == [s EXCEPT !.log = Append(@, "restart_backend")]
    IN  IF actuator = "ok" THEN restart_succeeded(t, delivered)
        ELSE restart_failed([t EXCEPT !.log = Append(@, "restart_backend raised")],
                            delivered)

\* variant: the notification is sent but not remembered
count_failure_unflagged(s, delivered) ==
    LET s1 == [s EXCEPT !.consecutive_failures = @ + 1]
    IN  IF first_failure(s1)
        THEN send_notification(s1, "Stream Health Issue", delivered)
        ELSE s1

\* Lines 485-495: the failure is counted and, the first time, notified.
count_failure(s, delivered) ==
    LET s1 == [s EXCEPT !.consecutive_failures = @ + 1]
    IN  IF first_failure(s1)
        THEN [send_notification(s1, "Stream Health Issue", delivered)
                  EXCEPT !.notified_failure = TRUE]
        ELSE s1

unhealthy_sample(s, actuator, d) ==
    LET s2 == count_failure(s, d[1])
    IN  IF threshold_reached(s2)
        THEN IF budget_exhausted(s2) THEN give_up(s2, d[2])
             ELSE restart(s2, actuator, d[2])
        ELSE sleep(s2, "fail_interval")

\* variant: a polling error starts the count of failures afresh
polling_error_forgets(s) ==
    sleep([s EXCEPT !.log = Append(@, "Error checking stream"),
                    !.consecutive_failures = 0, !.notified_failure = FALSE],
          "fail_interval")

polling_error(s) ==
    sleep([s EXCEPT !.log = Append(@, "Error checking stream")], "fail_interval")

\* An exception no handler of watch catches leaves the command.
uncaught(s) == [s EXCEPT !.pc = "crashed", !.log = Append(@, "raise")]

\* One pass of the loop body: the fetch of line 461 up to the next sleep.
poll(s, health, actuator, d) ==
    LET t == Begin(s, "poll", health)
    IN  CASE health = "OtherError" -> uncaught(t)
          [] health = "StreamToolsError" -> polling_error(t)
          [] is_healthy(health) -> healthy_sample(t)
          [] OTHER -> unhealthy_sample(t, actuator, d)

\* variant: an unhealthy sample after the restart counts as a failure
recheck_counting(s, health, delivered) ==
    LET t == Begin(s, "recheck", health)
    IN  CASE health \in FetchErrors -> restart_failed(t, delivered)
          [] health \in {"good", "ok"} ->
                [send_notification(t, "Stream Recovered", delivered)
                    EXCEPT !.pc = "poll"]
          [] OTHER -> [t EXCEPT !.pc = "poll", !.consecutive_failures = @ + 1]

\* The wait after a restart is over: the fetch of line 524, inside the try
\* whose handler is `except Exception`.
recheck(s, health, delivered) ==
    LET t == Begin(s, "recheck", health)
    IN  CASE health \in FetchErrors -> restart_failed(t, delivered)
          [] health \in {"good", "ok"} ->
                [send_notification(t, "Stream Recovered", delivered)
                    EXCEPT !.pc = "poll"]
          [] OTHER -> [t EXCEPT !.pc = "poll"]

\* Lines 374-456: the first fetch is only displayed; the start-up message is
\* sent when a webhook is configured.
startup(s, health, delivered) ==
    LET t == Begin(s, "startup", health)
    IN  IF health = "OtherError" THEN [uncaught(t) EXCEPT !.pc = "not_started"]
        ELSE IF t.notify
             THEN [send_notification(t, "Stream Monitor Started", delivered)
                       EXCEPT !.pc = "poll"]
             ELSE [t EXCEPT !.pc = "poll"]

\* KeyboardInterrupt inside the loop: lines 548-550.
interrupt(s) ==
    [s EXCEPT !.pc = "stopped", !.step = "interrupt",
              !.log = <<"Monitoring stopped.">>,
              !.failed = 0, !.pre = Counters(s),
              !.reported = s.total_restarts]

\* KeyboardInterrupt raised while azura.restart_backend() (line 510) is
\* waiting for its answer: `except Exception` (line 532) does not catch it,
\* the handler of line 548 does.  in_call records where it arrived.
interrupt_restart(s, health, delivered) ==
    LET t == count_failure(Begin(s, "poll", health), delivered)
    IN  [t EXCEPT !.pc = "stopped", !.step = "interrupt", !.in_call = TRUE,
                  !.log = @ \o <<"restart_backend", "KeyboardInterrupt",
                                 "Monitoring stopped.">>,
                  !.reported = t.total_restarts]

Notifications ==
    {"Stream Monitor Started", "Stream Health Issue", "Stream Monitor Stopped",
     "AzuraCast Restarted", "Stream Recovered", "Restart Failed"}

Notified(log) == \E i \in 1..Len(log) : log[i] \in Notifications

\* What the run has done so far, kept beside the locals: the length of the
\* current run of unhealthy samples (counted from a sample taken at failure
\* count 0), the actuator calls and the "Stream Health Issue" messages made
\* in it, whether every sample of the loop was healthy, whether the loop
\* has sent no message and made no actuator call, and whether the start-up
\* message was sent.  episode tells that a failure episode is open: it
\* opens with an unhealthy sample and lasts until a healthy sample or, past
\* the pass that made it (closed), a restart that succeeded; noted counts
\* the "Stream Health Issue" messages of the episode.
Tally(s0, s1) ==
    LET sampled == Has(s1.log, "get") /\ s1.step # "startup"
        polled == sampled /\ s1.step # "recheck"
        healthy == polled /\ s1.sample \in {"good", "ok"}
        unhealthy == polled /\ s1.sample \in {"bad", "noData"}
        fresh == healthy \/ (unhealthy /\ s0.consecutive_failures = 0)
        one(ev) == IF Has(s1.log, ev) THEN 1 ELSE 0
    IN  [s1 EXCEPT
            !.streak = IF healthy THEN 0
                       ELSE IF unhealthy THEN (IF fresh THEN 1 ELSE s0.streak + 1)
                       ELSE s0.streak,
            !.calls = (IF fresh THEN 0 ELSE s0.calls) + one("restart_backend"),
            !.issues = (IF fresh THEN 0 ELSE s0.issues) + one("Stream Health Issue"),
            !.all_healthy = s0.all_healthy
                            /\ (sampled => s1.sample \in {"good", "ok"}),
            !.episode = IF healthy THEN FALSE
                        ELSE IF unhealthy THEN TRUE
                        ELSE s0.episode /\ ~s0.closed,
            !.noted = IF healthy THEN 0
                      ELSE (IF s0.closed THEN 0 ELSE s0.noted)
                           + one("Stream Health Issue"),
            !.closed = /\ s1.step = "poll"
                       /\ Has(s1.log, "restart_backend")
                       /\ ~Has(s1.log, "restart_backend raised"),
            !.announced = s0.announced \/ Has(s1.log, "Stream Monitor Started"),
            !.quiet = s0.quiet
                      /\ (sampled => ~Notified(s1.log) /\ ~Has(s1.log, "restart_backend"))]

WatchStart ==
    /\ watch.pc = "start"
    /\ \E health \in FetchOutcomes, delivered \in BOOLEAN :
          watch' = Tally(watch, startup(watch, health, delivered))
    /\ UNCHANGED <<authVars, twin, api, race>>

Poll ==
    /\ watch.pc = "poll"
    /\ \E health \in FetchOutcomes, actuator \in ActuatorOutcomes, d \in Deliveries :
          /\ health \in {"bad", "noData"} => watch.consecutive_failures < MaxFailures
          /\ watch' = Tally(watch, poll(watch, health, actuator, d))
    /\ UNCHANGED <<authVars, twin, api, race>>

\* time.sleep(interval) or time.sleep(fail_interval) returns.
Wake ==
    /\ watch.pc = "sleep"
    /\ watch.slept \in {"interval", "fail_interval"}
    /\ watch' = [watch EXCEPT !.pc = "poll"]
    /\ UNCHANGED <<authVars, twin, api, race>>

\* time.sleep(restart_wait) returns.
Recheck ==
    /\ watch.pc = "sleep"
    /\ watch.slept = "restart_wait"
    /\ \E health \in FetchOutcomes, delivered \in BOOLEAN :
          watch' = Tally(watch, recheck(watch, health, delivered))
    /\ UNCHANGED <<authVars, twin, api, race>>

Interrupt ==
    /\ watch.pc \in {"poll", "sleep"}
    /\ watch' = interrupt(watch)
    /\ UNCHANGED <<authVars, twin, api, race>>

InterruptRestart ==
    /\ watch.pc = "poll"
    /\ watch.consecutive_failures < MaxFailures
    /\ \E health \in {"bad", "noData"}, delivered \in BOOLEAN :
          LET t == count_failure(Begin(watch, "poll", health), delivered)
          IN  /\ threshold_reached(t)
              /\ ~budget_exhausted(t)
              /\ watch' = Tally(watch, interrupt_restart(watch, health, delivered))
    /\ UNCHANGED <<authVars, twin, api, race>>

WatchInit ==
    /\ watch \in {WatchBegin(o) : o \in WatchOptions}
    /\ twin = NotWatching
    /\ api = NoResources
    /\ race = NoRace
    /\ credentials = NoCreds
    /\ token_path = NoFile
    /\ client_secret_path = NoFile
    /\ environ = CHOOSE e \in EnvValues : TRUE
    /\ last = NoCall
    /\ cli = NoCommand

WatchNext ==
    \/ WatchStart
    \/ Poll
    \/ Wake
    \/ Recheck
    \/ Interrupt
    \/ InterruptRestart

WatchSpec == WatchInit /\ [][WatchNext]_vars

-----------------------------------------------------------------------------
\* The state right after a pass of the loop whose sample was unhealthy.
UnhealthyPass ==
    /\ watch # NotWatching
    /\ watch.step = "poll"
    /\ watch.sample \in {"bad", "noData"}

\* The claim of C12 as first stated, whatever is left of the restart budget:
\* with restarts enabled, the Nth unhealthy sample in a row (N = fail_count,
\* counted from failure count 0) makes the one actuator call of the run of
\* samples, none is made earlier, and the one "Stream Health Issue" message
\* is sent on the 1st sample.
C12_EscalationAnyBudget ==
    (UnhealthyPass /\ watch.restart_on_fail /\ watch.streak <= watch.cfg.fail_count) =>
        /\ watch.issues = 1
        /\ Has(watch.log, "Stream Health Issue") <=> watch.streak = 1
        /\ watch.streak < watch.cfg.fail_count => watch.calls = 0
        /\ watch.streak = watch.cfg.fail_count =>
              (watch.calls = 1 /\ Has(watch.log, "restart_backend"))

\* C12: with fail_count = N, restarts enabled and fewer than max_restarts
\* restarts made so far, N unhealthy samples in a row starting from failure
\* count 0 lead to exactly one restart actuator call, made on the Nth sample
\* and not earlier, and to exactly one failure notification ("Stream Health
\* Issue"), sent on the 1st of these samples only.
C12_Escalation ==
    (UnhealthyPass /\ watch.restart_on_fail /\ watch.streak <= watch.cfg.fail_count) =>
        /\ watch.issues = 1
        /\ Has(watch.log, "Stream Health Issue") <=> watch.streak = 1
        /\ watch.streak < watch.cfg.fail_count => watch.calls = 0
        /\ (watch.streak = watch.cfg.fail_count
            /\ watch.pre.total_restarts < watch.cfg.max_restarts) =>
              (watch.calls = 1 /\ Has(watch.log, "restart_backend"))

C12_Witness ==
    /\ UnhealthyPass
    /\ watch.restart_on_fail
    /\ watch.cfg.fail_count >= 2
    /\ watch.streak = watch.cfg.fail_count
    /\ watch.calls = 1
    /\ watch.issues = 1
    /\ ~Has(watch.log, "Stream Health Issue")

\* The unhealthy sample just taken brought the failure count to fail_count
\* or beyond while max_restarts restarts had already been made.
ThresholdAtSpentBudget ==
    /\ UnhealthyPass
    /\ watch.pre.consecutive_failures + 1 >= watch.cfg.fail_count
    /\ watch.pre.total_restarts >= watch.cfg.max_restarts

GaveUp ==
    /\ watch.pc = "exit"
    /\ Has(watch.log, "Exit(1)")
    /\ Has(watch.log, "Stream Monitor Stopped")
    /\ ~Has(watch.log, "restart_backend")

\* The claim of C13 as first stated, restarts enabled or not: reaching the
\* threshold with the budget spent ends the run with exit code 1 and the
\* "Stream Monitor Stopped" message, and without an actuator call.
C13_GivesUpAnyMode == ThresholdAtSpentBudget => GaveUp

\* C13: with restarts enabled, when the failure count reaches fail_count
\* while total_restarts has already reached max_restarts, watch ends with
\* exit code 1 after the "Stream Monitor Stopped" message, makes no actuator
\* call and takes no further step; total_restarts never decreases.
C13_GivesUp ==
    /\ []((ThresholdAtSpentBudget /\ watch.restart_on_fail) => GaveUp)
    /\ [][/\ watch.pc = "exit" => watch' = watch
          /\ watch'.total_restarts >= watch.total_restarts]_vars

C13_Witness ==
    /\ ThresholdAtSpentBudget
    /\ GaveUp
    /\ watch.cfg.max_restarts >= 1
    /\ watch.total_restarts = watch.cfg.max_restarts

\* The state right after a fetch of the loop (line 461 or line 524) that
\* ended with an exception.
FetchFailed ==
    /\ watch # NotWatching
    /\ watch.step \in {"poll", "recheck"}
    /\ watch.sample \in FetchErrors

\* C14: a fetch of the loop that ends with an error, wherever in the loop
\* it is made, leaves consecutive_failures, notified_failure and
\* total_restarts as they were, sends no notification, and is followed by a
\* sleep of fail_interval before the next fetch.
C14_FetchErrorRetries ==
    FetchFailed =>
        /\ Counters(watch) = watch.pre
        /\ ~Notified(watch.log)
        /\ Has(watch.log, "sleep")
        /\ watch.slept = "fail_interval"

\* The state right after a pass of the loop in which restart_backend raised.
ActuatorFailed ==
    /\ UnhealthyPass
    /\ Has(watch.log, "restart_backend raised")

\* C15: when the restart actuator call fails, consecutive_failures and
\* total_restarts keep the values they had when the call was made, the
\* "Restart Failed" notification is sent, and the loop sleeps fail_interval
\* before the next fetch.
C15_ActuatorFailure ==
    ActuatorFailed =>
        /\ watch.consecutive_failures = watch.pre.consecutive_failures + 1
        /\ watch.total_restarts = watch.pre.total_restarts
        /\ Has(watch.log, "Restart Failed")
        /\ Has(watch.log, "sleep")
        /\ watch.slept = "fail_interval"

C15_Witness ==
    /\ ActuatorFailed
    /\ watch.consecutive_failures > watch.cfg.fail_count
    /\ watch.total_restarts >= 1

\* C16: a healthy sample taken while 0 < consecutive_failures < fail_count
\* sets consecutive_failures to 0 and notified_failure to false in that same
\* pass, makes the loop sleep the normal interval, and calls no restart.
C16_HealthyResets ==
    (/\ watch.step = "poll"
     /\ watch.sample \in {"good", "ok"}
     /\ watch.pre.consecutive_failures > 0
     /\ watch.pre.consecutive_failures < watch.cfg.fail_count) =>
        /\ watch.consecutive_failures = 0
        /\ watch.notified_failure = FALSE
        /\ Has(watch.log, "sleep")
        /\ watch.slept = "interval"
        /\ ~Has(watch.log, "restart_backend")
        /\ watch.total_restarts = watch.pre.total_restarts

C16_Witness ==
    /\ watch.step = "poll"
    /\ watch.sample = "ok"
    /\ watch.pre.consecutive_failures = 2
    /\ watch.pre.notified_failure
    /\ watch.cfg.fail_count > 2
    /\ watch.consecutive_failures = 0

\* The loop is running or was interrupted, and each of its samples so far
\* was "good" or "ok".
HealthyRun ==
    /\ watch # NotWatching
    /\ watch.pc \in {"poll", "sleep", "stopped"}
    /\ watch.all_healthy

\* The claim of C17 as first stated: in a run of healthy samples only the
\* failure count is 0 throughout, no actuator call is made and no
\* notification at all is sent.
C17_HealthyRunSilent ==
    HealthyRun =>
        /\ watch.consecutive_failures = 0
        /\ watch.quiet
        /\ ~watch.announced

\* C17: in a run of watch in which every sample is healthy the failure
\* count is 0 at every iteration, no restart actuator call is made, and no
\* notification is sent other than the "Stream Monitor Started" message
\* that goes out before the loop when a webhook is configured.
C17_HealthyRun ==
    HealthyRun =>
        /\ watch.consecutive_failures = 0
        /\ watch.quiet
        /\ watch.total_restarts = 0
        /\ watch.announced => watch.notify

C17_Witness ==
    /\ HealthyRun
    /\ watch.step = "poll"
    /\ watch.sample = "ok"
    /\ watch.announced
    /\ watch.quiet
    /\ watch.pc = "poll"

-----------------------------------------------------------------------------
(***************************************************************************)
(* Two runs of watch with the same options, fed the same fetch outcomes,   *)
(* the same actuator outcomes and the same interrupt, step by step; the    *)
(* outcome of each webhook post is chosen for each run on its own.         *)
(***************************************************************************)
TwinStart ==
    /\ watch.pc = "start"
    /\ \E health \in FetchOutcomes, d1 \in BOOLEAN, d2 \in BOOLEAN :
          /\ watch' = Tally(watch, startup(watch, health, d1))
          /\ twin' = Tally(twin, startup(twin, health, d2))
    /\ UNCHANGED <<authVars, api, race>>

TwinPoll ==
    /\ watch.pc = "poll"
    /\ \E health \in FetchOutcomes, actuator \in ActuatorOutcomes,
          d1 \in Deliveries, d2 \in Deliveries :
          /\ health \in {"bad", "noData"} => watch.consecutive_failures < MaxFailures
          /\ watch' = Tally(watch, poll(watch, health, actuator, d1))
          /\ twin' = Tally(twin, poll(twin, health, actuator, d2))
    /\ UNCHANGED <<authVars, api, race>>

TwinWake ==
    /\ watch.pc = "sleep"
    /\ watch.slept \in {"interval", "fail_interval"}
    /\ watch' = [watch EXCEPT !.pc = "poll"]
    /\ twin' = [twin EXCEPT !.pc = "poll"]
    /\ UNCHANGED <<authVars, api, race>>

TwinRecheck ==
    /\ watch.pc = "sleep"
    /\ watch.slept = "restart_wait"
    /\ \E health \in FetchOutcomes, d1 \in BOOLEAN, d2 \in BOOLEAN :
          /\ watch' = Tally(watch, recheck(watch, health, d1))
          /\ twin' = Tally(twin, recheck(twin, health, d2))
    /\ UNCHANGED <<authVars, api, race>>

TwinInterrupt ==
    /\ watch.pc \in {"poll", "sleep"}
    /\ watch' = interrupt(watch)
    /\ twin' = interrupt(twin)
    /\ UNCHANGED <<authVars, api, race>>

TwinInit ==
    /\ watch \in {WatchBegin(o) : o \in WatchOptions}
    /\ twin = watch
    /\ api = NoResources
    /\ race = NoRace
    /\ credentials = NoCreds
    /\ token_path = NoFile
    /\ client_secret_path = NoFile
    /\ environ = CHOOSE e \in EnvValues : TRUE
    /\ last = NoCall
    /\ cli = NoCommand

TwinNext ==
    \/ TwinStart
    \/ TwinPoll
    \/ TwinWake
    \/ TwinRecheck
    \/ TwinInterrupt

TwinSpec == TwinInit /\ [][TwinNext]_vars

\* A run without what only the delivery of its messages decides.
Observable(s) == [s EXCEPT !.failed = 0]

\* C18: two runs of watch given the same samples, polling errors, actuator
\* outcomes and interrupt go through the same consecutive_failures,
\* notified_failure and total_restarts values, the same actuator calls,
\* sleeps and exit, whichever of their webhook posts succeed or fail.
C18_DeliveryIrrelevant == Observable(watch) = Observable(twin)

C18_Witness ==
    /\ watch.step = "poll"
    /\ Has(watch.log, "restart_backend")
    /\ Has(watch.log, "Stream Health Issue")
    /\ watch.failed = 2
    /\ twin.failed = 0
    /\ watch.total_restarts = 1

\* C19: once in its loop, watch ends in two ways only: on KeyboardInterrupt,
\* printing "Monitoring stopped." and the total_restarts reached, or, with
\* the restart budget spent, by giving up; whatever the samples, the polling
\* errors and the actuator outcomes are, nothing else ends it.
C19_OnlyInterruptStops ==
    (watch # NotWatching /\ watch.pc \in {"stopped", "exit", "crashed"}) =>
        \/ /\ watch.pc = "stopped"
           /\ Has(watch.log, "Monitoring stopped.")
           /\ watch.reported = watch.total_restarts
        \/ /\ watch.pc = "exit"
           /\ watch.total_restarts >= watch.cfg.max_restarts

-----------------------------------------------------------------------------
(***************************************************************************)
(* BroadcastService.update and StreamService.update                        *)
(* (stream_tools/services).  api.broadcasts and api.streams are the        *)
(* resources YouTube holds, by id; api.call is the last update made        *)
(* through a service: the requests it sent, in order, and how it ended.    *)
(***************************************************************************)
ResourceIds == {"id1", "id2"}
NoItem == [kind |-> "absent"]
Titles == {"t1", "t2"}
Descriptions == {"d1", "d2"}
PrivacyStatus == {"public", "private"}
Broadcasts == [title : Titles, description : Descriptions, privacyStatus : PrivacyStatus]
Streams == [title : Titles, cdn : {"rtmp"}]
HttpStatus == {"200", "404", "500"}

_handle_api_error(code) == IF code = "404" THEN "NotFoundError" ELSE "APIError"

\* What liveBroadcasts().list(id=...) / liveStreams().list(id=...) answers.
items(store, id) == IF store[id] = NoItem THEN <<>> ELSE <<store[id]>>

ServiceCall(op, id, store) ==
    [op |-> op, id |-> id, exc |-> "none", log |-> <<>>, found |-> FALSE,
     store |-> store]

Request(c, name) == [c EXCEPT !.log = Append(@, name)]

broadcasts_update(store, broadcast_id, title, description, privacy, fetch, put) ==
    LET c0 == Request(ServiceCall("broadcasts.update", broadcast_id, store), "list")
    IN  IF fetch # "200" THEN [c0 EXCEPT !.exc = _handle_api_error(fetch)]
        ELSE IF items(store, broadcast_id) = <<>>
        THEN [c0 EXCEPT !.exc = "NotFoundError"]
        ELSE LET item == items(store, broadcast_id)[1]
                 body == [title |-> IF title # None THEN title ELSE item.title,
                          description |-> IF description # None THEN description
                                          ELSE item.description,
                          privacyStatus |-> IF privacy # None THEN privacy
                                            ELSE item.privacyStatus]
                 c1 == Request([c0 EXCEPT !.found = TRUE], "update")
             IN  IF put # "200" THEN [c1 EXCEPT !.exc = _handle_api_error(put)]
                 ELSE [c1 EXCEPT !.store = [store EXCEPT ![broadcast_id] = body]]

streams_update_unchecked(store, stream_id, title, fetch, put) ==
    LET c0 == Request(ServiceCall("streams.update", stream_id, store), "list")
        c1 == Request(c0, "update")
    IN  IF fetch # "200" THEN [c0 EXCEPT !.exc = _handle_api_error(fetch)]
        ELSE IF put # "200" THEN [c1 EXCEPT !.exc = _handle_api_error(put)]
        ELSE [c1 EXCEPT !.store =
                 [store EXCEPT ![stream_id] = [title |-> title, cdn |-> "rtmp"]]]

streams_update(store, stream_id, title, fetch, put) ==
    LET c0 == Request(ServiceCall("streams.update", stream_id, store), "list")
    IN  IF fetch # "200" THEN [c0 EXCEPT !.exc = _handle_api_error(fetch)]
        ELSE IF items(store, stream_id) = <<>>
        THEN [c0 EXCEPT !.exc = "NotFoundError"]
        ELSE LET item == items(store, stream_id)[1]
                 c1 == Request([c0 EXCEPT !.found = TRUE], "update")
             IN  IF put # "200" THEN [c1 EXCEPT !.exc = _handle_api_error(put)]
                 ELSE [c1 EXCEPT !.store =
                          [store EXCEPT ![stream_id] = [item EXCEPT !.title = title]]]

\* The call as api.call keeps it: touched tells whether a resource changed.
Outcome(c, before) ==
    [op |-> c.op, id |-> c.id, exc |-> c.exc, log |-> c.log, found |-> c.found,
     fetched |-> before[c.id] # NoItem, touched |-> c.store # before]

BroadcastUpdate ==
    /\ api # NoResources
    /\ \E id \in ResourceIds, title \in Titles \cup {None},
          description \in {None, "d2"}, privacy \in {None, "private"},
          fetch \in HttpStatus, put \in HttpStatus :
          LET c == broadcasts_update(api.broadcasts, id, title, description,
                                     privacy, fetch, put)
          IN  api' = [api EXCEPT !.broadcasts = c.store,
                                 !.call = Outcome(c, api.broadcasts) @@
                                          [status |-> fetch]]
    /\ UNCHANGED <<authVars, watchVars, race>>

StreamUpdate ==
    /\ api # NoResources
    /\ \E id \in ResourceIds, title \in Titles,
          fetch \in HttpStatus, put \in HttpStatus :
          LET c == streams_update(api.streams, id, title, fetch, put)
          IN  api' = [api EXCEPT !.streams = c.store,
                                 !.call = Outcome(c, api.streams) @@
                                          [status |-> fetch]]
    /\ UNCHANGED <<authVars, watchVars, race>>

NoServiceCall ==
    [op |-> "none", id |-> None, exc |-> "none", log |-> <<>>, found |-> FALSE,
     fetched |-> FALSE, touched |-> FALSE, status |-> "none"]

ServiceInit ==
    /\ api \in [broadcasts : [ResourceIds -> Broadcasts \cup {NoItem}],
                streams : [ResourceIds -> Streams \cup {NoItem}],
                call : {NoServiceCall}]
    /\ watch = NotWatching
    /\ twin = NotWatching
    /\ race = NoRace
    /\ credentials = NoCreds
    /\ token_path = NoFile
    /\ client_secret_path = NoFile
    /\ environ = CHOOSE e \in EnvValues : TRUE
    /\ last = NoCall
    /\ cli = NoCommand

ServiceNext ==
    \/ BroadcastUpdate
    \/ StreamUpdate

ServiceSpec == ServiceInit /\ [][ServiceNext]_vars

\* C20: update of a broadcast or of a stream sends the list request for the
\* resource before anything else; when the answer holds no item the call
\* raises NotFoundError, the update request is never sent and no resource
\* changes.
C20_UpdateNotFound ==
    (api # NoResources /\ api.call.op # "none") =>
        /\ Len(api.call.log) >= 1
        /\ api.call.log[1] = "list"
        /\ Has(api.call.log, "update") => api.call.log = <<"list", "update">>
        /\ (api.call.status = "200" /\ ~api.call.fetched) =>
              /\ api.call.exc = "NotFoundError"
              /\ ~Has(api.call.log, "update")
              /\ ~api.call.touched

C20_Witness ==
    /\ api # NoResources
    /\ api.call.op = "streams.update"
    /\ api.call.status = "200"
    /\ ~api.call.fetched
    /\ api.call.exc = "NotFoundError"
    /\ api.call.log = <<"list">>
    /\ api.broadcasts[api.call.id] # NoItem

-----------------------------------------------------------------------------
\* What the strategy named by the last authenticate call needs was missing
\* when the call was made.
PreconditionUnmet ==
    /\ last.op = "authenticate"
    /\ CASE last.arg = ENVIRONMENT -> ~EnvConfigured
         [] last.arg = TOKEN_FILE -> last.pre_file = NoFile
         [] last.arg = INTERACTIVE -> client_secret_path = NoFile
         [] OTHER -> FALSE

\* C21: a strategy whose precondition is unmet (ENVIRONMENT without its
\* three variables, TOKEN_FILE without the token file, INTERACTIVE without
\* the client-secret file) raises AuthenticationError at once: no refresh
\* exchange, no consent flow, no file read or written, and the credential
\* and the token file are what they were.
C21_FailsImmediately ==
    PreconditionUnmet =>
        /\ last.exc = "AuthenticationError"
        /\ last.log = <<last.arg>>
        /\ credentials = last.pre_creds
        /\ token_path = last.pre_file

C21_Witness ==
    /\ PreconditionUnmet
    /\ last.arg = ENVIRONMENT
    /\ last.exc = "AuthenticationError"
    /\ last.pre_creds # NoCreds
    /\ credentials = last.pre_creds
    /\ token_path # NoFile
    /\ token_path # BadFile

\* The pass just made called restart_backend and the call returned.
RestartedNow ==
    /\ watch.step = "poll"
    /\ Has(watch.log, "restart_backend")
    /\ ~Has(watch.log, "restart_backend raised")

\* C22: throughout a run of watch consecutive_failures >= 0 and
\* 0 <= total_restarts <= max_restarts (max_restarts >= 0); total_restarts
\* never decreases, and over a pass it grows by one when restart_backend
\* returned and not at all otherwise.
C22_CounterRanges ==
    /\ [](/\ watch.consecutive_failures >= 0
          /\ watch.total_restarts >= 0
          /\ watch.total_restarts <= watch.cfg.max_restarts
          /\ watch.total_restarts =
                watch.pre.total_restarts + (IF RestartedNow THEN 1 ELSE 0))
    /\ [][watch'.total_restarts >= watch.total_restarts]_vars

C22_Witness ==
    /\ RestartedNow
    /\ watch.cfg.max_restarts >= 2
    /\ watch.total_restarts = watch.cfg.max_restarts
    /\ watch.pre.total_restarts = watch.total_restarts - 1

IsNotification(ev) == ev \in Notifications
IsActuatorCall(ev) == ev = "restart_backend"
IsRead(ev) == ev = "get"
IsSleep(ev) == ev = "sleep"
Count(log, Test(_)) == Len(SelectSeq(log, Test))

\* C23: from one fetch of the loop to the next there is exactly one read,
\* at most one restart actuator call, at most one send_notification call,
\* and one sleep: a fetch is never followed by another without a sleep in
\* between.
C23_OneOfEachPerIteration ==
    (watch.step \in {"poll", "recheck"}) =>
        /\ Count(watch.log, IsRead) = 1
        /\ Count(watch.log, IsActuatorCall) <= 1
        /\ Count(watch.log, IsNotification) <= 1
        /\ Count(watch.log, IsSleep) <= 1
        /\ watch.pc = "poll" => Count(watch.log, IsSleep) = 1

\* The pass ends with the actuator call, the "AzuraCast Restarted" message
\* and the sleep, in this order.
RestartSequence(log) ==
    /\ Len(log) >= 3
    /\ log[Len(log) - 2] = "restart_backend"
    /\ log[Len(log) - 1] = "AzuraCast Restarted"
    /\ log[Len(log)] = "sleep"

\* C24: after restart_backend returned, consecutive_failures is 0 and
\* total_restarts one more, then "AzuraCast Restarted" is sent, then the loop
\* sleeps restart_wait, during which it makes no fetch; then it takes exactly
\* one sample, which sends "Stream Recovered" when it is healthy and only
\* then, and which, whatever it is, leaves consecutive_failures,
\* notified_failure and total_restarts as they were.
C24_RestartCycle ==
    /\ [](/\ RestartedNow =>
                /\ watch.consecutive_failures = 0
                /\ watch.notified_failure = FALSE
                /\ watch.total_restarts = watch.pre.total_restarts + 1
                /\ RestartSequence(watch.log)
                /\ watch.slept = "restart_wait"
                /\ Count(watch.log, IsRead) = 1
          /\ watch.step = "recheck" =>
                /\ Counters(watch) = watch.pre
                /\ Count(watch.log, IsRead) = 1
                /\ Has(watch.log, "Stream Recovered")
                       <=> watch.sample \in {"good", "ok"})
    /\ [][(watch.pc = "sleep" /\ watch.slept = "restart_wait")
             => watch'.step \in {"recheck", "interrupt"}]_vars

C24_Witness ==
    /\ watch.step = "recheck"
    /\ watch.sample = "good"
    /\ Has(watch.log, "Stream Recovered")
    /\ watch.total_restarts = 2
    /\ watch.consecutive_failures = 0
    /\ watch.pc = "poll"

\* C25: in a failure episode, from its first unhealthy sample until the
\* next healthy sample or restart that succeeded, exactly one "Stream Health
\* Issue" notification is sent, and it is sent on the first unhealthy
\* sample, whatever unhealthy samples, polling errors and failed restarts
\* follow in the episode.
C25_OneIssuePerEpisode ==
    /\ watch.episode => watch.noted = 1
    /\ Has(watch.log, "Stream Health Issue") =>
          /\ Has(watch.log, "get")
          /\ watch.sample \in {"bad", "noData"}
          /\ watch.pre.consecutive_failures = 0

C25_Witness ==
    /\ watch.episode
    /\ watch.noted = 1
    /\ ActuatorFailed
    /\ watch.pre.consecutive_failures >= watch.cfg.fail_count
    /\ watch.cfg.fail_count >= 2
    /\ ~Has(watch.log, "Stream Health Issue")

\* C26: when the interrupt arrives while restart_backend is in progress,
\* watch stops only after the call has returned, and the total it prints
\* counts that restart.
C26_InterruptSparesRestart ==
    (watch.pc = "stopped" /\ watch.in_call) =>
        /\ ~Has(watch.log, "KeyboardInterrupt")
        /\ watch.reported = watch.pre.total_restarts + 1

\* An unhealthy sample read with restarts enabled while consecutive_failures
\* was already at fail_count or above: the actuator calls made since the
\* count was 0 have all failed.
AfterFailedRestart ==
    /\ UnhealthyPass
    /\ watch.restart_on_fail
    /\ watch.pre.consecutive_failures >= watch.cfg.fail_count

C28_FlagFollowsCounter ==
    watch.pc = "poll" =>
        (watch.notified_failure <=> watch.consecutive_failures > 0)

C28_Witness ==
    /\ watch.pc = "poll"
    /\ watch.notified_failure
    /\ watch.consecutive_failures >= 2
    /\ watch.total_restarts >= 1

\* --no-restart was given, or get_azuracast_client() found no settings.
RestartsDisabled ==
    ~watch.cfg.restart_on_fail \/ ~watch.cfg.azura

\* C29: with restarts disabled the restart actuator is never called and
\* watch never gives up for a spent budget, however high
\* consecutive_failures gets: each unhealthy sample in a row adds one to it
\* and is followed by a sleep of fail_interval.
C29_NoRestartMode ==
    RestartsDisabled =>
        /\ ~Has(watch.log, "restart_backend")
        /\ watch.calls = 0
        /\ watch.total_restarts = 0
        /\ watch.pc # "exit"
        /\ UnhealthyPass =>
              /\ watch.consecutive_failures = watch.pre.consecutive_failures + 1
              /\ watch.streak = watch.consecutive_failures
              /\ Has(watch.log, "sleep")
              /\ watch.slept = "fail_interval"

C29_Witness ==
    /\ RestartsDisabled
    /\ watch.cfg.restart_on_fail
    /\ watch.cfg.max_restarts = 0
    /\ UnhealthyPass
    /\ watch.consecutive_failures > watch.cfg.fail_count
    /\ watch.slept = "fail_interval"

-----------------------------------------------------------------------------
(***************************************************************************)
(* Two processes, each with an OAuthManager of its own, run logout and     *)
(* TOKEN_FILE authentication on the one token file.  Nothing in oauth.py   *)
(* locks the file, so a step is one file-system call: exists(), unlink(),  *)
(* the read of from_authorized_user_file, and the two halves of            *)
(* write_text (open for writing empties the file, closing it stores the    *)
(* text).  race.proc[p] is where process p stands, race.last_done the      *)
(* operation that finished last.                                           *)
(***************************************************************************)
Procs == {"p1", "p2"}

Idle == [op |-> "none", pc |-> "idle", creds |-> NoCreds, exc |-> "none"]

CachedToken ==
    token_data(Credentials("at1", "rtI", "cidI", "secI", YOUTUBE_SCOPES, "future"))

\* Process p moves to r and touches nothing but the file, which becomes f.
RaceStep(p, r, f) ==
    /\ race' = [race EXCEPT !.proc[p] = r,
                            !.last_done = IF r.pc = "idle" THEN r.op ELSE @]
    /\ token_path' = f
    /\ UNCHANGED <<credentials, client_secret_path, environ, last, cli,
                   watchVars, api>>

Ended(r, e) == [r EXCEPT !.pc = "idle", !.exc = e]

\* logout: the credential is dropped and token_path.exists() is asked.
LogoutCheck(p) ==
    /\ race.proc[p].pc = "idle"
    /\ LET r == [op |-> "logout", pc |-> "unlink", creds |-> NoCreds, exc |-> "none"]
       IN  RaceStep(p, IF token_path # NoFile THEN r ELSE Ended(r, "none"), token_path)

\* logout: token_path.unlink(), FileNotFoundError when the file is gone.
LogoutUnlink(p) ==
    /\ race.proc[p].pc = "unlink"
    /\ RaceStep(p, Ended(race.proc[p],
                         IF token_path # NoFile THEN "none" ELSE "OtherError"),
                NoFile)

\* _authenticate_from_token_file: token_path.exists() is asked.
TokenFileCheck(p) ==
    /\ race.proc[p].pc = "idle"
    /\ LET r == [op |-> TOKEN_FILE, pc |-> "load", creds |-> race.proc[p].creds,
                 exc |-> "none"]
       IN  RaceStep(p, IF token_path = NoFile THEN Ended(r, "AuthenticationError")
                       ELSE r, token_path)

\* _authenticate_from_token_file: the file is read and the credential
\* refreshed.
TokenFileLoad(p) ==
    /\ race.proc[p].pc = "load"
    /\ \E ok \in BOOLEAN, tok \in AccessTokens :
          LET r == race.proc[p]
              m == _refresh_if_needed(
                       Call(from_authorized_user_file(token_path, YOUTUBE_SCOPES),
                            token_path), ok, tok)
          IN  IF token_path \in {NoFile, BadFile}
              THEN RaceStep(p, Ended(r, "OtherError"), token_path)
              ELSE IF m.exc # "none"
              THEN RaceStep(p, Ended([r EXCEPT !.creds = m.creds], m.exc), token_path)
              ELSE RaceStep(p, [r EXCEPT !.creds = m.creds, !.pc = "save"], token_path)

\* _save_credentials: write_text opens the file, which empties it.
SaveTruncate(p) ==
    /\ race.proc[p].pc = "save"
    /\ RaceStep(p, [race.proc[p] EXCEPT !.pc = "write"], BadFile)

\* _save_credentials: write_text stores the text.
SaveWrite(p) ==
    /\ race.proc[p].pc = "write"
    /\ RaceStep(p, Ended(race.proc[p], "none"), token_data(race.proc[p].creds))

RaceInit ==
    /\ race = [proc |-> [p \in Procs |-> Idle], last_done |-> "none"]
    /\ token_path \in {NoFile, CachedToken}
    /\ watch = NotWatching
    /\ twin = NotWatching
    /\ api = NoResources
    /\ credentials = NoCreds
    /\ client_secret_path = NoFile
    /\ environ = CHOOSE e \in EnvValues : TRUE
    /\ last = NoCall
    /\ cli = NoCommand

RaceNext ==
    \/ \E p \in Procs : LogoutCheck(p)
    \/ \E p \in Procs : LogoutUnlink(p)
    \/ \E p \in Procs : TokenFileCheck(p)
    \/ \E p \in Procs : TokenFileLoad(p)
    \/ \E p \in Procs : SaveTruncate(p)
    \/ \E p \in Procs : SaveWrite(p)

RaceSpec == RaceInit /\ [][RaceNext]_vars

\* C30: with two processes running logout and TOKEN_FILE authentication on
\* the same token file, in any interleaving, every operation ends well or
\* with AuthenticationError and with nothing else, and when all of them have
\* ended and the last to end was a logout, the token file is absent.
C30_RaceFree ==
    /\ \A p \in Procs : race.proc[p].exc \in {"none", "AuthenticationError"}
    /\ ((\A p \in Procs : race.proc[p].pc = "idle") /\ race.last_done = "logout")
          => token_path = NoFile
====
